---- MODULE Spec2Model ----
(***************************************************************************)
(* A model of pufferlib/vectorization.py: the orchestrator VecEnv, the     *)
(* EnvPool MultiEnv, and the worker backends Serial, Multiprocessing and   *)
(* SharedMemoryMultiprocessing.                                            *)
(*                                                                         *)
(* Python values are modelled as follows.  An optional value is a sequence *)
(* of length 0 (None) or 1.  A dict is the sequence of its items in        *)
(* insertion order, each item a record [k, v].  A raised exception is the  *)
(* name of its class in the field exc of an operation's result, "" when    *)
(* the operation returned normally.                                        *)
(*                                                                         *)
(* CHOOSE y \in {f(x) : x \in {e}} : TRUE is f(e): it is written where the  *)
(* value of e is used more than once, so that it is computed once.         *)
(***************************************************************************)
EXTENDS Integers, Sequences, FiniteSets, TLC

\* The FSM states, lines 6-8.
RESET == 0
SEND == 1
RECV == 2

\* Bounds of the model.
MaxWorkers == 2
MaxEnvsPerWorker == 2
MaxEnvs == 4
MaxAgents == 3
MaxSeed == 0
MaxRequests == 3

None == <<>>
Some(x) == <<x>>

Min(a, b) == IF a < b THEN a ELSE b

\* The (num_workers, envs_per_worker) pairs a VecEnv is constructed with.
Configs ==
    {c \in (1..MaxWorkers) \X (1..MaxEnvsPerWorker) : c[1] * c[2] <= MaxEnvs}

\* The numbers of agents an environment may hold: one, or the most the
\* binding allows.
AgentCounts == {1, MaxAgents}

\* The seeds a caller passes: None or an integer.
Seeds == {None} \cup {Some(s) : s \in 0..MaxSeed}

---------------------------------------------------------------------------
(* Python and numpy helpers *)

\* A dict(zip(...)) that pairs the keys with the actions in reverse.
dict_zip_mut(keys, atns) ==
    [i \in 1..Min(Len(keys), Len(atns)) |->
        [k |-> keys[i], v |-> atns[Min(Len(keys), Len(atns)) + 1 - i]]]

\* dict(zip(keys, atns)): pairs up to the shorter of the two.
dict_zip(keys, atns) ==
    [i \in 1..Min(Len(keys), Len(atns)) |-> [k |-> keys[i], v |-> atns[i]]]

dict_keys(d) == [i \in 1..Len(d) |-> d[i].k]
dict_values(d) == [i \in 1..Len(d) |-> d[i].v]

\* np.split(a, n) raises ValueError unless n divides len(a) equally.
np_split_ok(a, n) == Len(a) % n = 0

\* An np.split that hands out the chunks last first.
np_split_mut(a, n) ==
    LET c == Len(a) \div n
    IN  [i \in 1..n |-> SubSeq(a, (n - i) * c + 1, (n + 1 - i) * c)]

np_split(a, n) ==
    LET c == Len(a) \div n
    IN  [i \in 1..n |-> SubSeq(a, (i - 1) * c + 1, i * c)]

---------------------------------------------------------------------------
(* The environment: an external collaborator, modelled at its interface.   *)
(* An environment holds a fixed population of agents, reports done as it   *)
(* chooses on a step, and remembers what produced its present observation: *)
(* the seed of the reset, or the action map of the step.  Its put and get  *)
(* write and read one stored value.                                        *)

\* The agent keys of a population of n agents, in the order the
\* environment reports them.
KeyList(n) == [i \in 1..n |-> n + 1 - i]

NewEnv(w, e, n) ==
    [id |-> <<w, e>>, agents |-> n, done |-> FALSE, kind |-> "new",
     seed |-> None, applied |-> <<>>, store |-> 0]

\* The observation map of an environment in its present state.
env_obs(env) ==
    [i \in 1..env.agents |->
        [k |-> KeyList(env.agents)[i],
         v |-> [id |-> env.id, key |-> KeyList(env.agents)[i], kind |-> env.kind]]]

env_reset(env, seed) ==
    [env EXCEPT !.done = FALSE, !.kind = "reset", !.seed = seed, !.applied = <<>>]

\* env.step(actions); d is the done flag the environment reports.
env_step(env, actions, d) ==
    [env EXCEPT !.done = d, !.kind = "step", !.seed = None, !.applied = actions]

env_step_result(env) ==
    [obs |-> env_obs(env),
     rewards |-> [i \in 1..env.agents |-> [k |-> KeyList(env.agents)[i], v |-> 1]],
     dones |-> [i \in 1..env.agents |-> [k |-> KeyList(env.agents)[i], v |-> env.done]],
     infos |-> <<"info">>]

---------------------------------------------------------------------------
(* MultiEnv, lines 37-79 *)

\* The seed reset_all gives its i-th environment (i from 1).
reset_all_seed(seed, i) == IF seed = None THEN None ELSE Some(seed[1] + (i - 1))

MultiEnv_reset_all(envs, seed) ==
    LET envs2 == [i \in 1..Len(envs) |-> env_reset(envs[i], reset_all_seed(seed, i))]
    IN  [envs |-> envs2,
         exc |-> "",
         ret |-> [i \in 1..Len(envs) |->
                    [obs |-> env_obs(envs2[i]), rewards |-> <<>>,
                     dones |-> <<>>, infos |-> <<>>]]]

\* A step that never resets.
step_resets_mut(env) == FALSE

\* Whether step resets the environment instead of stepping it.
step_resets(env) == env.done

\* The slot of one environment in step: (new environment, result tuple).
step_slot(env, actions, d) ==
    IF step_resets(env)
    THEN LET env2 == env_reset(env, None)
             obs == env_obs(env2)
         IN  [env |-> env2,
              res |-> [obs |-> obs,
                       rewards |-> [i \in 1..Len(obs) |-> [k |-> obs[i].k, v |-> 0]],
                       dones |-> [i \in 1..Len(obs) |-> [k |-> obs[i].k, v |-> FALSE]],
                       infos |-> <<>>]]
    ELSE LET env2 == env_step(env, actions, d)
         IN  [env |-> env2, res |-> env_step_result(env2)]

\* d[i] is the done flag environment i reports if it is stepped.
MultiEnv_step(envs, actions_lists, d) ==
    IF Len(envs) # Len(actions_lists)
    THEN [envs |-> envs, exc |-> "AssertionError", ret |-> <<>>]
    ELSE CHOOSE y \in
            {[envs |-> [i \in 1..Len(envs) |-> slots[i].env],
              exc |-> "",
              ret |-> [i \in 1..Len(envs) |-> slots[i].res]] :
             slots \in {[i \in 1..Len(envs) |->
                           step_slot(envs[i], actions_lists[i], d[i])]}} : TRUE

\* The methods getattr finds on a MultiEnv.
MultiEnvMethods == {"seed", "profile_all", "put_all", "get_all", "reset_all", "step"}

---------------------------------------------------------------------------
(* Serial, lines 167-184.  A backend is [envs, async_handles, actions_lists]:
   actions_lists records the argument of the last send it was given. *)

NewSerial(w, E, pops) ==
    [envs |-> [e \in 1..E |-> NewEnv(w, e, pops[w][e])],
     async_handles |-> None,
     actions_lists |-> None]

Serial_async_reset_all(b, seed) ==
    IF b.async_handles # None
    THEN [b |-> b, exc |-> "AssertionError"]
    ELSE CHOOSE y \in
            {[b |-> [b EXCEPT !.envs = r.envs, !.async_handles = Some(r.ret)],
              exc |-> ""] :
             r \in {MultiEnv_reset_all(b.envs, seed)}} : TRUE

Serial_send(b, actions_lists, d) ==
    IF b.async_handles # None
    THEN [b |-> b, exc |-> "AssertionError"]
    ELSE CHOOSE y \in
            {IF r.exc # ""
             THEN [b |-> [b EXCEPT !.actions_lists = Some(actions_lists)], exc |-> r.exc]
             ELSE [b |-> [b EXCEPT !.envs = r.envs, !.async_handles = Some(r.ret),
                                   !.actions_lists = Some(actions_lists)],
                   exc |-> ""] :
             r \in {MultiEnv_step(b.envs, actions_lists, d)}} : TRUE

\* A recv that returns the buffered result and keeps it.
Serial_recv_mut(b) ==
    IF b.async_handles = None
    THEN [b |-> b, exc |-> "AssertionError", ret |-> <<>>]
    ELSE [b |-> b, exc |-> "", ret |-> b.async_handles[1]]

Serial_recv(b) ==
    IF b.async_handles = None
    THEN [b |-> b, exc |-> "AssertionError", ret |-> <<>>]
    ELSE [b |-> [b EXCEPT !.async_handles = None], exc |-> "", ret |-> b.async_handles[1]]

\* The methods Serial defines itself, and those of Backend, lines 11-34,
\* each of which raises NotImplementedError.
SerialMethods == {"async_reset_all", "send", "recv"}
BackendMethods ==
    {"send", "recv", "async_reset", "profile_all", "put", "get", "close"}

\* What calling method name on a Serial(MultiEnv, Backend) object ends in,
\* the classes searched in that order: "" stands for the method's own body.
Serial_lookup(name) ==
    IF name \in SerialMethods \cup MultiEnvMethods THEN ""
    ELSE IF name \in BackendMethods THEN "NotImplementedError"
    ELSE "AttributeError"

\* backend.close() on a Serial, lines 106-108.
Serial_close(b) == [b |-> b, exc |-> Serial_lookup("close")]

---------------------------------------------------------------------------
(* VecEnv, lines 82-164.  The orchestrator object is [state, agent_keys,   *)
(* backends]; num_workers and envs_per_worker are fixed at construction.   *)

VARIABLES
    num_workers,      \* self.num_workers
    envs_per_worker,  \* self.envs_per_worker
    state,            \* self.state
    agent_keys,       \* self.agent_keys, the agent-key ledger
    backends,         \* self.backends
    call,             \* the caller's last call: [op, arg]
    exc,              \* the exception that call raised, "" if it returned
    ret,              \* the batch that call returned, NoBatch if none
    rows,             \* the caller's note of the last batch: (env, key) per row
    reset_called,     \* history: async_reset has been called
    last_fsm_op,      \* history: the last of async_reset, recv, send called
    script,           \* process backends: the calls issued so far, [op, arg]
    progs,            \* process backends: one (caller, worker) pair per class
    inflight          \* process backends: the VecEnv.recv in progress

\* binding.max_agents
max_agents == MaxAgents

V == [state |-> state, agent_keys |-> agent_keys, backends |-> backends]

NoBatch == [obs |-> <<>>, rewards |-> <<>>, dones |-> <<>>, infos |-> <<>>]

\* No recv is in progress.  at is the position in the loop of recv, rs what
\* the backends' recv calls have returned so far; expected and order are
\* history: what each worker's outstanding unit yields, and the workers in
\* the order they published.
NoRecv == [at |-> 0, rs |-> <<>>, expected |-> <<>>, order |-> <<>>]

\* An async_reset that asserts nothing.
async_reset_admits_mut(st) == TRUE

\* The assertions on the FSM state, lines 114, 123 and 145.
async_reset_admits(st) == st = RESET
recv_admits(st) == st = RECV
send_admits(st) == st = SEND

\* An async_reset that gives every backend the caller's seed.
worker_seed_mut(seed, i, E) == seed

\* The seed backend i (from 1) gets: the loop adds envs_per_worker *
\* max_agents after each backend, lines 117-120.
worker_seed(seed, i, E) ==
    IF seed = None THEN None ELSE Some(seed[1] + (i - 1) * E * max_agents)

\* The sequences of ss[1..n], joined.
RECURSIVE Concat(_, _)
Concat(ss, n) == IF n = 0 THEN <<>> ELSE Concat(ss, n - 1) \o ss[n]

\* A loop over the backends that calls one method on each and ends at the
\* first call that raises: rs[i] is what the call on backend i gives.  The
\* index of the first call that raises, Len(rs) + 1 if none does.
FirstRaise(rs) ==
    IF \A i \in 1..Len(rs) : rs[i].exc = ""
    THEN Len(rs) + 1
    ELSE CHOOSE i \in 1..Len(rs) :
            rs[i].exc # "" /\ \A j \in 1..(i - 1) : rs[j].exc = ""

\* The backends and the exception such a loop leaves.
loop_outcome(bs, rs) ==
    [backends |-> [i \in 1..Len(bs) |->
                      IF i <= Min(FirstRaise(rs), Len(rs)) THEN rs[i].b ELSE bs[i]],
     exc |-> IF FirstRaise(rs) > Len(rs) THEN "" ELSE rs[FirstRaise(rs)].exc]

\* The loop of async_reset, lines 117-120.
async_reset_loop(bs, seed, E) ==
    CHOOSE y \in
        {loop_outcome(bs, rs) :
         rs \in {[i \in 1..Len(bs) |->
                    Serial_async_reset_all(bs[i], worker_seed(seed, i, E))]}} : TRUE

\* The FSM state async_reset leaves, line 115.
async_reset_state == RECV

VecEnv_async_reset(v, seed, E) ==
    IF ~async_reset_admits(v.state)
    THEN [v |-> v, exc |-> "AssertionError"]
    ELSE CHOOSE y \in
            {[v |-> [v EXCEPT !.state = async_reset_state, !.backends = r.backends],
              exc |-> r.exc] :
             r \in {async_reset_loop(v.backends, seed, E)}} : TRUE

\* The rows one backend's tuples add to a flat sequence, lines 131-136:
\* field is "obs", "rewards" or "dones".
backend_rows(envs, field) ==
    Concat([j \in 1..Len(envs) |->
               dict_values(CASE field = "obs" -> envs[j].obs
                             [] field = "rewards" -> envs[j].rewards
                             [] OTHER -> envs[j].dones)],
           Len(envs))

\* What the loop of recv has gathered from the backends before the first
\* whose recv raises, lines 126-138.
recv_gathered(rs, f) ==
    [agent_keys |-> [i \in 1..(f - 1) |->
                        [j \in 1..Len(rs[i].ret) |-> dict_keys(rs[i].ret[j].obs)]],
     obs |-> Concat([i \in 1..(f - 1) |-> backend_rows(rs[i].ret, "obs")], f - 1),
     rewards |-> Concat([i \in 1..(f - 1) |-> backend_rows(rs[i].ret, "rewards")], f - 1),
     dones |-> Concat([i \in 1..(f - 1) |-> backend_rows(rs[i].ret, "dones")], f - 1),
     infos |-> Concat([i \in 1..(f - 1) |->
                         [j \in 1..Len(rs[i].ret) |-> rs[i].ret[j].infos]], f - 1)]

\* A recv that goes back to RESET.
recv_state_mut == RESET

\* The FSM state recv leaves, line 124.
recv_state == SEND

\* recv past its assertion; rs[i] is what recv of backend i gives.
recv_body(v, rs) ==
    CHOOSE y \in
        {[v |-> [state |-> recv_state, agent_keys |-> g.agent_keys,
                 backends |-> loop_outcome(v.backends, rs).backends],
          exc |-> IF FirstRaise(rs) <= Len(rs) THEN rs[FirstRaise(rs)].exc
                  ELSE IF g.obs = <<>> THEN "ValueError"  \* np.stack([])
                  ELSE "",
          ret |-> IF FirstRaise(rs) <= Len(rs) \/ g.obs = <<>> THEN NoBatch
                  ELSE [obs |-> g.obs, rewards |-> g.rewards,
                        dones |-> g.dones, infos |-> g.infos]] :
         g \in {recv_gathered(rs, FirstRaise(rs))}} : TRUE

\* A recv that moves the FSM before it asserts.
VecEnv_recv_mut(v) ==
    IF ~recv_admits(v.state)
    THEN [v |-> [v EXCEPT !.state = recv_state], exc |-> "AssertionError",
          ret |-> NoBatch]
    ELSE CHOOSE y \in
            {recv_body(v, rs) :
             rs \in {[i \in 1..Len(v.backends) |-> Serial_recv(v.backends[i])]}} : TRUE

VecEnv_recv(v) ==
    IF ~recv_admits(v.state)
    THEN [v |-> v, exc |-> "AssertionError", ret |-> NoBatch]
    ELSE CHOOSE y \in
            {recv_body(v, rs) :
             rs \in {[i \in 1..Len(v.backends) |-> Serial_recv(v.backends[i])]}} : TRUE

\* The action maps of one worker, lines 154-155.
worker_actions(keys_list, atns, E) ==
    [j \in 1..Min(Len(keys_list), E) |-> dict_zip(keys_list[j], np_split(atns, E)[j])]

\* The loop over zip(backends, agent_keys, actions), lines 153-156.
send_loop(bs, keys, chunks, E, d) ==
    CHOOSE y \in
        {loop_outcome(bs, rs) :
         rs \in {[i \in 1..Min(Len(bs), Min(Len(keys), Len(chunks))) |->
                    IF ~np_split_ok(chunks[i], E)
                    THEN [b |-> bs[i], exc |-> "ValueError"]
                    ELSE Serial_send(bs[i], worker_actions(keys[i], chunks[i], E),
                                     d[i])]}} : TRUE

\* The FSM state send leaves, line 146.
send_state == RECV

VecEnv_send(v, actions, W, E, d) ==
    IF ~send_admits(v.state)
    THEN [v |-> v, exc |-> "AssertionError"]
    ELSE IF ~np_split_ok(actions, W)
    THEN [v |-> [v EXCEPT !.state = send_state], exc |-> "ValueError"]
    ELSE CHOOSE y \in
            {[v |-> [v EXCEPT !.state = send_state, !.backends = r.backends],
              exc |-> r.exc] :
             r \in {send_loop(v.backends, v.agent_keys, np_split(actions, W), E, d)}} : TRUE

\* The seed reset hands on to async_reset, line 159.
reset_seed(seed) == None

\* reset and step, lines 158-164.  The field last names the last of
\* async_reset, recv and send the call went into.
with_last(r, op) == [v |-> r.v, exc |-> r.exc, ret |-> r.ret, last |-> op]

VecEnv_reset(v, seed, E) ==
    CHOOSE y \in
        {IF a.exc # ""
         THEN [v |-> a.v, exc |-> a.exc, ret |-> NoBatch, last |-> "async_reset"]
         ELSE CHOOSE z \in {with_last(r, "recv") : r \in {VecEnv_recv(a.v)}} : TRUE :
         a \in {VecEnv_async_reset(v, reset_seed(seed), E)}} : TRUE

VecEnv_step(v, actions, W, E, d) ==
    CHOOSE y \in
        {IF s.exc # ""
         THEN [v |-> s.v, exc |-> s.exc, ret |-> NoBatch, last |-> "send"]
         ELSE CHOOSE z \in {with_last(r, "recv") : r \in {VecEnv_recv(s.v)}} : TRUE :
         s \in {VecEnv_send(v, actions, W, E, d)}} : TRUE

\* close: the first backend's close raises, lines 106-108.
VecEnv_close(v) ==
    IF Len(v.backends) = 0
    THEN [v |-> v, exc |-> ""]
    ELSE [v |-> v, exc |-> Serial_close(v.backends[1]).exc]

---------------------------------------------------------------------------
(* The caller.  An exception is not caught: the caller ends with it. *)

\* The (environment, agent key) each row of an observation batch is about.
RowsOf(b) == [j \in 1..Len(b.obs) |-> [id |-> b.obs[j].id, key |-> b.obs[j].key]]

\* The action batch the caller submits: one action per row of the last
\* observation batch, the action at flat position j being j.
Actions == [j \in 1..Len(rows) |-> j]

\* The done flags the environments may report when they are stepped.
Oracles ==
    IF send_admits(state)
    THEN [1..num_workers -> [1..envs_per_worker -> BOOLEAN]]
    ELSE {[w \in 1..num_workers |-> [e \in 1..envs_per_worker |-> FALSE]]}

\* The variables of the orchestrator over Serial backends, and those of the
\* process backends, which are modelled on their own further down.
vec_vars == <<num_workers, envs_per_worker, state, agent_keys, backends, call,
              exc, ret, rows, reset_called, last_fsm_op>>
proc_vars == <<script, progs, inflight>>
vars == <<vec_vars, proc_vars>>

Init ==
    /\ \E c \in Configs :
        /\ num_workers = c[1]
        /\ envs_per_worker = c[2]
        /\ \E pops \in [1..c[1] -> [1..c[2] -> AgentCounts]] :
              backends = [w \in 1..c[1] |-> NewSerial(w, c[2], pops)]
    /\ state = RESET
    /\ agent_keys = <<>>
    /\ call = [op |-> "init", arg |-> None]
    /\ exc = ""
    /\ ret = NoBatch
    /\ rows = <<>>
    /\ reset_called = FALSE
    /\ last_fsm_op = "none"
    /\ script = <<>>
    /\ progs = <<>>
    /\ inflight = NoRecv

Commit(v) ==
    /\ state' = v.state
    /\ agent_keys' = v.agent_keys
    /\ backends' = v.backends
    /\ UNCHANGED <<num_workers, envs_per_worker, proc_vars>>

\* What the caller keeps of a call that returned r, a batch or nothing.
Returned(r) ==
    /\ exc' = r.exc
    /\ ret' = r.ret
    /\ rows' = IF r.exc = "" THEN RowsOf(r.ret) ELSE rows

ReturnedNothing(r) ==
    /\ exc' = r.exc
    /\ ret' = NoBatch
    /\ UNCHANGED rows

Do_async_reset ==
    /\ exc = ""
    /\ \E seed \in Seeds :
        \E r \in {VecEnv_async_reset(V, seed, envs_per_worker)} :
            /\ Commit(r.v)
            /\ call' = [op |-> "async_reset", arg |-> seed]
            /\ ReturnedNothing(r)
            /\ reset_called' = TRUE
            /\ last_fsm_op' = "async_reset"

Do_recv ==
    /\ exc = ""
    /\ \E r \in {VecEnv_recv(V)} :
           /\ Commit(r.v)
           /\ call' = [op |-> "recv", arg |-> None]
           /\ Returned(r)
           /\ last_fsm_op' = "recv"
           /\ UNCHANGED reset_called

Do_send ==
    /\ exc = ""
    /\ \E d \in Oracles :
        \E r \in {VecEnv_send(V, Actions, num_workers, envs_per_worker, d)} :
            /\ Commit(r.v)
            /\ call' = [op |-> "send", arg |-> None]
            /\ ReturnedNothing(r)
            /\ last_fsm_op' = "send"
            /\ UNCHANGED reset_called

Do_reset ==
    /\ exc = ""
    /\ \E seed \in Seeds :
        \E r \in {VecEnv_reset(V, seed, envs_per_worker)} :
            /\ Commit(r.v)
            /\ call' = [op |-> "reset", arg |-> seed]
            /\ Returned(r)
            /\ reset_called' = TRUE
            /\ last_fsm_op' = r.last

Do_step ==
    /\ exc = ""
    /\ \E d \in Oracles :
        \E r \in {VecEnv_step(V, Actions, num_workers, envs_per_worker, d)} :
            /\ Commit(r.v)
            /\ call' = [op |-> "step", arg |-> None]
            /\ Returned(r)
            /\ last_fsm_op' = r.last
            /\ UNCHANGED reset_called

Do_close ==
    /\ exc = ""
    /\ \E r \in {VecEnv_close(V)} :
           /\ Commit(r.v)
           /\ call' = [op |-> "close", arg |-> None]
           /\ ReturnedNothing(r)
           /\ UNCHANGED <<reset_called, last_fsm_op>>

\* profile: Serial.profile_all is MultiEnv.profile_all, which reads the
\* environments' timers and changes nothing, lines 110-111 and 47-48.
Do_profile ==
    /\ exc = ""
    /\ call' = [op |-> "profile", arg |-> None]
    /\ exc' = ""
    /\ ret' = NoBatch
    /\ UNCHANGED <<num_workers, envs_per_worker, state, agent_keys, backends,
                   rows, reset_called, last_fsm_op, proc_vars>>

Next ==
    \/ Do_async_reset
    \/ Do_recv
    \/ Do_send
    \/ Do_reset
    \/ Do_step
    \/ Do_close
    \/ Do_profile

Spec == Init /\ [][Next]_vars

---------------------------------------------------------------------------
(* Claims about the orchestrator, checked under Spec *)

Slots == {sl \in (1..num_workers) \X (1..envs_per_worker) : TRUE}
Env(sl) == backends[sl[1]].envs[sl[2]]

\* The action map the last send handed to the environment's backend for it.
Delivered(sl) == backends[sl[1]].actions_lists[1][sl[2]]

\* The (worker, environment) of row i (from 1) under the ordering law:
\* worker (i-1) div E and environment (i-1) mod E, both from 0.
RowSlot(i) == <<((i - 1) \div envs_per_worker) + 1, ((i - 1) % envs_per_worker) + 1>>

SingleAgent == \A sl \in Slots : Env(sl).agents = 1
UniformAgents == \A sl, tl \in Slots : Env(sl).agents = Env(tl).agents

\* C1: the FSM state moves only RESET -> RECV -> (SEND -> RECV)*: a
\* successful async_reset goes from RESET to RECV, a successful recv from
\* RECV to SEND, a successful send from SEND to RECV; the state leaves RESET
\* only through the first async_reset (alone or inside reset), close and
\* profile leave it alone, and nothing brings it back to RESET.
C1_FsmOrder ==
    [][/\ (call'.op = "async_reset" /\ exc' = "") => (state = RESET /\ state' = RECV)
       /\ (call'.op = "recv" /\ exc' = "") => (state = RECV /\ state' = SEND)
       /\ (call'.op = "send" /\ exc' = "") => (state = SEND /\ state' = RECV)
       /\ (state = RESET /\ state' # RESET) =>
              (call'.op \in {"async_reset", "reset"} /\ ~reset_called)
       /\ (state # state') =>
              <<state, state'>> \in {<<RESET, RECV>>, <<RECV, SEND>>, <<SEND, RECV>>,
                                     <<RESET, SEND>>}
       /\ (<<state, state'>> = <<RESET, SEND>>) => call'.op = "reset"
       /\ (call'.op \in {"close", "profile"}) => state' = state
       /\ (state' = RESET) => state = RESET]_vars

\* C1 witness: a send has succeeded after a recv, and stepped an environment.
C1_Witness ==
    /\ call.op = "send" /\ exc = "" /\ state = RECV
    /\ \E sl \in Slots : Env(sl).kind = "step"

\* C2: send before any async_reset raises; a recv that follows a recv with
\* no send between them raises; an async_reset after the first raises.
C2_ViolationsRaise ==
    [][/\ (call'.op = "send" /\ ~reset_called) => exc' = "AssertionError"
       /\ (call'.op = "recv" /\ last_fsm_op = "recv") => exc' = "AssertionError"
       /\ (call'.op = "async_reset" /\ reset_called) => exc' = "AssertionError"]_vars

\* C2 witness: a second async_reset, made after a recv, has raised.
C2_Witness ==
    /\ call.op = "async_reset" /\ exc = "AssertionError"
    /\ state = SEND /\ reset_called

\* Row i of the batch a call returned is about RowSlot(i).
RowsInSlotOrder ==
    \A i \in 1..Len(ret.obs) : ret.obs[i].id = RowSlot(i)

\* The action at position i went to RowSlot(i), under the key of row i.
ActionsInSlotOrder ==
    \A i \in 1..Len(rows) :
        /\ RowSlot(i) \in Slots
        /\ \E n \in 1..Len(Delivered(RowSlot(i))) :
              Delivered(RowSlot(i))[n] = [k |-> rows[i].key, v |-> i]

\* C3 as stated: for every W and E, row i of the observation batch is about
\* worker i div E, environment i mod E, and send delivers the action of
\* row i there.
C3_Original ==
    /\ (call.op \in {"recv", "reset", "step"} /\ exc = "") => RowsInSlotOrder
    /\ (call.op = "send" /\ exc = "") => ActionsInSlotOrder

\* C3 amended: the ordering law holds when every environment reports
\* exactly one agent; the batch then has W * E rows.
C3_OrderingSingleAgent ==
    SingleAgent =>
        /\ (call.op \in {"recv", "reset", "step"} /\ exc = "") =>
              (Len(ret.obs) = num_workers * envs_per_worker /\ RowsInSlotOrder)
        /\ (call.op = "send") =>
              (exc \in {"", "AssertionError"}
               /\ (exc = "" => (Len(rows) = num_workers * envs_per_worker
                                /\ ActionsInSlotOrder)))

\* C3 witness: two workers of two single-agent environments each have been
\* sent a batch.
C3_Witness ==
    /\ SingleAgent /\ num_workers = 2 /\ envs_per_worker = 2
    /\ call.op = "send" /\ exc = ""

\* The action at position j went to the environment and the agent key of
\* row j, and every environment got exactly one action per agent.
Routed ==
    /\ \A j \in 1..Len(rows) :
          \E n \in 1..Len(Delivered(rows[j].id)) :
              Delivered(rows[j].id)[n] = [k |-> rows[j].key, v |-> j]
    /\ \A sl \in Slots : Len(Delivered(sl)) = Env(sl).agents

\* C4 as stated: whatever the populations, a send that returns has routed
\* every action to the agent of its row.
C4_Original == (call.op = "send" /\ exc = "") => Routed

\* C4 amended: when all environments report the same number of agents, a
\* send the FSM admits returns and has routed every action to the agent
\* of its row, one action per agent.
C4_RoutedUniform ==
    (UniformAgents /\ call.op = "send" /\ exc # "AssertionError") =>
        (exc = "" /\ Len(rows) > 0 /\ Routed)

\* C4 witness: several environments of several agents each have been sent
\* a batch.
C4_Witness ==
    /\ UniformAgents /\ call.op = "send" /\ exc = ""
    /\ num_workers * envs_per_worker > 1
    /\ \A sl \in Slots : Env(sl).agents > 1

\* The result tuple a backend holds for an environment.
Handle(sl) == backends[sl[1]].async_handles[1][sl[2]]

\* C5: a send that returns resets every environment that had reported done
\* and does not apply its action: the slot holds the reset observation,
\* reward 0 and done False under each of its keys and no infos; every
\* other environment is stepped with the action map delivered for it.
C5_AutoReset ==
    [][(call'.op = "send" /\ exc' = "") =>
          \A sl \in Slots :
              IF Env(sl).done
              THEN /\ Env(sl)'.kind = "reset"
                   /\ Env(sl)'.applied = <<>>
                   /\ Handle(sl)'.obs = env_obs(env_reset(Env(sl), None))
                   /\ dict_keys(Handle(sl)'.rewards) = dict_keys(Handle(sl)'.obs)
                   /\ dict_keys(Handle(sl)'.dones) = dict_keys(Handle(sl)'.obs)
                   /\ \A n \in 1..Len(Handle(sl)'.obs) :
                         /\ Handle(sl)'.obs[n].v.kind = "reset"
                         /\ Handle(sl)'.rewards[n].v = 0
                         /\ Handle(sl)'.dones[n].v = FALSE
                   /\ Handle(sl)'.infos = <<>>
              ELSE /\ Env(sl)'.kind = "step"
                   /\ Env(sl)'.applied = Delivered(sl)'
                   /\ Handle(sl)' = env_step_result(Env(sl)')]_vars

\* C5 witness: a send has reset one environment and stepped another.
C5_Witness ==
    /\ call.op = "send" /\ exc = ""
    /\ \E sl, tl \in Slots : Env(sl).kind = "reset" /\ Env(tl).kind = "step"

\* C6 as stated, for Sequential backends: close on an orchestrator on which
\* nothing else was called returns without error.
C6_CloseFresh ==
    (call.op = "close" /\ state = RESET /\ last_fsm_op = "none") => exc = ""

\* C10 as stated: reset(seed) leaves the orchestrator and its environments
\* as async_reset(seed) followed by recv() does.
C10_ResetIsTwoPhase ==
    [][(call'.op = "reset") =>
          \E a \in {VecEnv_async_reset(V, call'.arg, envs_per_worker)} :
              \E r \in {IF a.exc # "" THEN a.v ELSE VecEnv_recv(a.v).v} :
                  /\ state' = r.state
                  /\ backends' = r.backends]_vars

---------------------------------------------------------------------------
(* Multiprocessing and SharedMemoryMultiprocessing, lines 187-279.  A      *)
(* program is one backend object together with its worker process:         *)
(* [cls, request_queue, response_queue, worker, obs_np, released, sent,    *)
(* unit, waiting, results].  worker is the worker process: where it is,    *)
(* the exception that ended it, the attributes of its copy of self, and    *)
(* its MultiEnv.  sent counts the requests put so far; a request carries   *)
(* its number as id and the response to it carries the same id; unit is    *)
(* the id of the last reset_all or step request.  results is what each     *)
(* completed call of the caller returned or raised.                        *)

MP == "Multiprocessing"
SHM == "SharedMemoryMultiprocessing"

\* The statements of __init__ in the order they run, lines 190-193 and
\* 242-245: an attribute name stands for its assignment, "start" for
\* self.process.start().
InitOrder(cls) ==
    IF cls = SHM
    THEN <<"request_queue", "response_queue", "process", "start",
           "obs_shape", "obs_shm", "obs_np">>
    ELSE <<"request_queue", "response_queue", "process", "start">>

\* The attributes of the worker's copy of self: those assigned before the
\* process is started, and envs, which the worker assigns itself.
worker_attrs(cls) ==
    {InitOrder(cls)[i] : i \in {j \in 1..Len(InitOrder(cls)) :
        \E s \in (j + 1)..Len(InitOrder(cls)) : InitOrder(cls)[s] = "start"}}
    \cup {"envs"}

\* Python values on the egress channel: None, a list (of result tuples, of
\* timers, of stored values), or the tuple (len(results), dones).
PyNone == [kind |-> "None", data |-> <<>>]
PyList(kind, data) == [kind |-> kind, data |-> data]
PyHeader(n, dones) == [kind |-> "header", data |-> <<[n |-> n, dones |-> dones]>>]

Request(name, args, id) == [name |-> name, args |-> args, id |-> id]
Response(val, id) == [val |-> val, id |-> id]

\* The environment's seed, put, get and timers.
env_seed(env, seed) == env
env_put(env, v) == [env EXCEPT !.store = v]
env_get(env) == env.store
env_timers(env) == "timers"

\* The environments of the process backends are deterministic: one reports
\* done exactly when it is stepped with an action 1.
env_done_on(actions) == \E i \in 1..Len(actions) : actions[i].v = 1
proc_dones(actions_lists) ==
    [i \in 1..Len(actions_lists) |-> env_done_on(actions_lists[i])]

\* getattr(self.envs, request)(*args): [envs, exc, val].
MultiEnv_call(envs, request, args) ==
    CASE request = "seed" ->
           [envs |-> [i \in 1..Len(envs) |-> env_seed(envs[i], args[1] + i - 1)],
            exc |-> "", val |-> PyNone]
      [] request = "profile_all" ->
           [envs |-> envs, exc |-> "",
            val |-> PyList("timers", [i \in 1..Len(envs) |-> env_timers(envs[i])])]
      [] request = "put_all" ->
           [envs |-> [i \in 1..Len(envs) |-> env_put(envs[i], args[1])],
            exc |-> "", val |-> PyNone]
      [] request = "get_all" ->
           [envs |-> envs, exc |-> "",
            val |-> PyList("values", [i \in 1..Len(envs) |-> env_get(envs[i])])]
      [] request = "reset_all" ->
           CHOOSE y \in {[envs |-> r.envs, exc |-> r.exc, val |-> PyList("results", r.ret)] :
                         r \in {MultiEnv_reset_all(envs, args[1])}} : TRUE
      [] request = "step" ->
           CHOOSE y \in {[envs |-> r.envs, exc |-> r.exc, val |-> PyList("results", r.ret)] :
                         r \in {MultiEnv_step(envs, args[1], proc_dones(args[1]))}} : TRUE
      [] OTHER ->
           [envs |-> envs, exc |-> "AttributeError", val |-> PyNone]

NewProgram(cls, n) ==
    [cls |-> cls,
     request_queue |-> <<>>,
     response_queue |-> <<>>,
     worker |-> [pc |-> "running", exc |-> "", attrs |-> worker_attrs(cls),
                 envs |-> [e \in 1..n |-> NewEnv(1, e, 1)], envs_closed |-> FALSE],
     obs_np |-> IF cls = SHM THEN [e \in 1..n |-> <<>>] ELSE <<>>,
     released |-> FALSE,
     sent |-> 0,
     unit |-> 0,
     waiting |-> FALSE,
     results |-> <<>>]

\* The worker ends with exception e, its request taken and left unanswered.
worker_raises(p, e) ==
    [p EXCEPT !.request_queue = Tail(@), !.worker.pc = "crashed", !.worker.exc = e]

\* The generic dispatch of lines 199-202 and 269-271.
worker_dispatch(p) ==
    CHOOSE y \in
        {IF r.exc # ""
         THEN worker_raises(p, r.exc)
         ELSE [p EXCEPT !.request_queue = Tail(@),
                        !.worker.envs = r.envs,
                        !.response_queue =
                            Append(@, Response(r.val, Head(p.request_queue).id))] :
         r \in {MultiEnv_call(p.worker.envs, Head(p.request_queue).name,
                              Head(p.request_queue).args)}} : TRUE

\* One turn of the loop of Multiprocessing._worker_process, lines 198-202.
Multiprocessing_worker_process(p) == worker_dispatch(p)

\* The "terminate" branch, lines 253-256.
worker_terminate(p) ==
    IF "close" \notin MultiEnvMethods THEN worker_raises(p, "AttributeError")
    ELSE IF "obs_shm" \notin p.worker.attrs THEN worker_raises(p, "AttributeError")
    ELSE [p EXCEPT !.request_queue = Tail(@), !.worker.pc = "exited",
                   !.worker.envs_closed = TRUE, !.released = TRUE]

\* The "step" branch, lines 258-266.
worker_step(p) ==
    CHOOSE y \in
        {IF r.exc # "" THEN worker_raises(p, r.exc)
         ELSE IF Len(r.ret) > 0 /\ "obs_np" \notin p.worker.attrs
         THEN worker_raises([p EXCEPT !.worker.envs = r.envs], "AttributeError")
         ELSE [p EXCEPT !.request_queue = Tail(@),
                        !.worker.envs = r.envs,
                        !.obs_np = [i \in 1..Len(@) |->
                                       IF i <= Len(r.ret) THEN r.ret[i].obs ELSE @[i]],
                        !.response_queue =
                            Append(@, Response(
                                PyHeader(Len(r.ret),
                                         [i \in 1..Len(r.ret) |-> r.ret[i].dones]),
                                Head(p.request_queue).id))] :
         r \in {MultiEnv_step(p.worker.envs, Head(p.request_queue).args[1],
                              proc_dones(Head(p.request_queue).args[1]))}} : TRUE

\* One turn of the loop of SharedMemoryMultiprocessing._worker_process,
\* lines 250-271.
SharedMemoryMultiprocessing_worker_process(p) ==
    IF Head(p.request_queue).name = "terminate" THEN worker_terminate(p)
    ELSE IF Head(p.request_queue).name = "step" THEN worker_step(p)
    ELSE worker_dispatch(p)

\* self.request_queue.put((name, args, {}))
put(p, name, args) ==
    [p EXCEPT !.request_queue = Append(@, Request(name, args, p.sent + 1)),
              !.sent = @ + 1]

\* The caller's call op returns val or raises exc; id is the id of the
\* response it took from the egress channel, 0 if it took none.
completes(p, op, exc_, val, id) ==
    [p EXCEPT !.waiting = FALSE,
              !.results = Append(@, [op |-> op, exc |-> exc_, val |-> val,
                                     id |-> id, unit |-> p.unit])]

\* Lines 204-205, 211-212, 218-219: a request is put and nothing is read.
Multiprocessing_seed(p, seed) ==
    completes(put(p, "seed", <<seed>>), "seed", "", PyNone, 0)
Multiprocessing_put_all(p, v) ==
    completes(put(p, "put_all", <<v>>), "put_all", "", PyNone, 0)
Multiprocessing_close(p) ==
    completes(put(p, "close", <<>>), "close", "", PyNone, 0)

\* Lines 221-222 and 232-233: a reset/step unit is scheduled.
Multiprocessing_async_reset_all(p, seed) ==
    completes([put(p, "reset_all", <<seed>>) EXCEPT !.unit = p.sent + 1],
              "async_reset_all", "", PyNone, 0)
Multiprocessing_send(p, actions_lists) ==
    completes([put(p, "step", <<actions_lists>>) EXCEPT !.unit = p.sent + 1],
              "send", "", PyNone, 0)

\* Lines 208 and 215: the request of profile_all or get_all is put; the
\* caller then waits in response_queue.get().
Multiprocessing_request(p, name) == [put(p, name, <<>>) EXCEPT !.waiting = TRUE]

\* response_queue.get(), lines 209, 216 and 236: the oldest response.
Multiprocessing_get(p, op) ==
    completes([p EXCEPT !.response_queue = Tail(@)], op, "",
              Head(p.response_queue).val, Head(p.response_queue).id)

Multiprocessing_recv(p) == Multiprocessing_get(p, "recv")

\* self.obs_np[:num_new_obs], dones
shm_batch(p, num_new_obs, dones) ==
    [kind |-> "batch",
     data |-> <<[obs |-> SubSeq(p.obs_np, 1, Min(num_new_obs, Len(p.obs_np))),
                 dones |-> dones]>>]

\* Lines 277-279.  num_new_obs, dones = response raises TypeError on None
\* and ValueError on a list that has not two elements; a slice bound that
\* is no integer raises TypeError.
SharedMemoryMultiprocessing_recv(p) ==
    CHOOSE y \in
        {IF resp.val.kind = "header"
         THEN completes(q, "recv", "",
                        shm_batch(p, resp.val.data[1].n, resp.val.data[1].dones),
                        resp.id)
         ELSE IF resp.val.kind = "None"
         THEN completes(q, "recv", "TypeError", PyNone, resp.id)
         ELSE IF Len(resp.val.data) # 2
         THEN completes(q, "recv", "ValueError", PyNone, resp.id)
         ELSE IF resp.val.kind = "values"
         THEN completes(q, "recv", "",
                        shm_batch(p, resp.val.data[1], resp.val.data[2]), resp.id)
         ELSE completes(q, "recv", "TypeError", PyNone, resp.id) :
         resp \in {Head(p.response_queue)},
         q \in {[p EXCEPT !.response_queue = Tail(@)]}} : TRUE

---------------------------------------------------------------------------
(* The callers of the process backends.  The two programs, one per class, *)
(* are given the same calls in the same order: script is that order, and   *)
(* a program that has made all of it may make one call more.  A caller     *)
(* schedules a reset/step unit only when none is outstanding, calls recv   *)
(* only when one is, makes no call after close, and ends with the first    *)
(* exception it is raised.                                                 *)

ProgIds == {1, 2}
UnitOps == {"async_reset_all", "send"}

Raised(p) == Len(p.results) > 0 /\ p.results[Len(p.results)].exc # ""
Closed(s) == \E k \in 1..Len(s) : s[k].op = "close"
Outstanding(s) ==
    Cardinality({k \in 1..Len(s) : s[k].op \in UnitOps}) >
    Cardinality({k \in 1..Len(s) : s[k].op = "recv"})
Admissible(op, s) ==
    /\ ~Closed(s)
    /\ op \in UnitOps => ~Outstanding(s)
    /\ op = "recv" => Outstanding(s)

\* Program i has calls of the script left to make.
Behind(i) == Len(progs[i].results) < Len(script)

MayCall(i, op) ==
    /\ ~Raised(progs[i])
    /\ ~progs[i].waiting
    /\ IF Behind(i)
       THEN script[Len(progs[i].results) + 1].op = op
       ELSE Len(script) < MaxRequests /\ Admissible(op, script)

\* The arguments of the call: the script's, or a fresh choice.
ArgsOf(i, fresh) ==
    IF Behind(i) THEN {script[Len(progs[i].results) + 1].arg} ELSE fresh

\* The action lists of a send: environment e is given action e for its
\* one agent.
ActionsLists(n) == [e \in 1..n |-> <<[k |-> KeyList(1)[1], v |-> e]>>]

Issue(i, op, arg, q) ==
    /\ progs' = [progs EXCEPT ![i] = q]
    /\ script' = IF Behind(i) THEN script ELSE Append(script, [op |-> op, arg |-> arg])
    /\ UNCHANGED <<vec_vars, inflight>>

InitMP ==
    /\ \E n \in 1..MaxEnvsPerWorker :
        /\ envs_per_worker = n
        /\ progs = <<NewProgram(MP, n), NewProgram(SHM, n)>>
    /\ script = <<>>
    /\ inflight = NoRecv
    /\ num_workers = 1
    /\ state = RESET
    /\ agent_keys = <<>>
    /\ backends = <<>>
    /\ call = [op |-> "init", arg |-> None]
    /\ exc = ""
    /\ ret = NoBatch
    /\ rows = <<>>
    /\ reset_called = FALSE
    /\ last_fsm_op = "none"

P_seed(i) ==
    /\ MayCall(i, "seed")
    /\ \E a \in ArgsOf(i, {<<s>> : s \in 0..MaxSeed}) :
           Issue(i, "seed", a, Multiprocessing_seed(progs[i], a[1]))

P_put_all(i) ==
    /\ MayCall(i, "put_all")
    /\ \E a \in ArgsOf(i, {<<1>>}) :
           Issue(i, "put_all", a, Multiprocessing_put_all(progs[i], a[1]))

P_get_all(i) ==
    /\ MayCall(i, "get_all")
    /\ Issue(i, "get_all", <<>>, Multiprocessing_request(progs[i], "get_all"))

P_profile_all(i) ==
    /\ MayCall(i, "profile_all")
    /\ Issue(i, "profile_all", <<>>, Multiprocessing_request(progs[i], "profile_all"))

P_async_reset_all(i) ==
    /\ MayCall(i, "async_reset_all")
    /\ \E a \in ArgsOf(i, {<<s>> : s \in Seeds}) :
           Issue(i, "async_reset_all", a, Multiprocessing_async_reset_all(progs[i], a[1]))

P_send(i) ==
    /\ MayCall(i, "send")
    /\ \E a \in ArgsOf(i, {<<ActionsLists(envs_per_worker)>>}) :
           Issue(i, "send", a, Multiprocessing_send(progs[i], a[1]))

\* recv blocks while the egress channel is empty.
P_recv(i) ==
    /\ MayCall(i, "recv")
    /\ progs[i].response_queue # <<>>
    /\ Issue(i, "recv", <<>>,
             IF progs[i].cls = SHM
             THEN SharedMemoryMultiprocessing_recv(progs[i])
             ELSE Multiprocessing_recv(progs[i]))

\* VecEnv.close, lines 106-108, over the one backend of the program.
P_close(i) ==
    /\ MayCall(i, "close")
    /\ Issue(i, "close", <<>>, Multiprocessing_close(progs[i]))

\* The response_queue.get() of a waiting get_all or profile_all returns.
P_get(i) ==
    /\ progs[i].waiting
    /\ progs[i].response_queue # <<>>
    /\ progs' = [progs EXCEPT ![i] =
                    Multiprocessing_get(@, script[Len(@.results) + 1].op)]
    /\ UNCHANGED <<script, vec_vars, inflight>>

\* The worker takes its next request.
P_worker(i) ==
    /\ progs[i].worker.pc = "running"
    /\ progs[i].request_queue # <<>>
    /\ progs' = [progs EXCEPT ![i] =
                    IF @.cls = SHM
                    THEN SharedMemoryMultiprocessing_worker_process(@)
                    ELSE Multiprocessing_worker_process(@)]
    /\ UNCHANGED <<script, vec_vars, inflight>>

NextMP ==
    \/ \E i \in ProgIds : P_seed(i)
    \/ \E i \in ProgIds : P_put_all(i)
    \/ \E i \in ProgIds : P_get_all(i)
    \/ \E i \in ProgIds : P_profile_all(i)
    \/ \E i \in ProgIds : P_async_reset_all(i)
    \/ \E i \in ProgIds : P_send(i)
    \/ \E i \in ProgIds : P_recv(i)
    \/ \E i \in ProgIds : P_close(i)
    \/ \E i \in ProgIds : P_get(i)
    \/ \E i \in ProgIds : P_worker(i)

SpecMP == InitMP /\ [][NextMP]_vars

---------------------------------------------------------------------------
(* Claims about the process backends, checked under SpecMP *)

CloseCalled(i) ==
    \E k \in 1..Len(progs[i].results) : progs[i].results[k].op = "close"

\* C7: after close() over a Process+SharedMemory backend, a worker that is
\* no longer in its request loop has left it through the teardown message,
\* with its EnvPool closed and its shared buffer released; it has left by
\* no other path.
C7_CloseTearsDown ==
    \A i \in ProgIds :
        (progs[i].cls = SHM /\ CloseCalled(i) /\ progs[i].worker.pc # "running") =>
            /\ progs[i].worker.pc = "exited"
            /\ progs[i].worker.envs_closed
            /\ progs[i].released

\* C8: on the Process+Queues backend, with at most one reset/step unit
\* outstanding, every recv() that has returned took from the egress channel
\* the response to the request of the most recently scheduled unit.
C8_RecvReturnsUnit ==
    \A k \in 1..Len(progs[1].results) :
        progs[1].results[k].op = "recv" =>
            progs[1].results[k].id = progs[1].results[k].unit

\* The per-environment observations of what a recv returned.
observations(val) ==
    IF val.kind = "results" THEN [e \in 1..Len(val.data) |-> val.data[e].obs]
    ELSE IF val.kind = "batch" THEN val.data[1].obs
    ELSE <<>>

IsBatch(val) == val.kind \in {"results", "batch"}

\* C9: given the same sequence of async_reset_all, send and recv calls, the
\* k-th call being a recv that both backends have completed, both returned
\* from it and with the same per-environment observations in the same
\* order.
C9_SameObservations ==
    (\A k \in 1..Len(script) : script[k].op \in UnitOps \cup {"recv"}) =>
        \A k \in 1..Min(Len(progs[1].results), Len(progs[2].results)) :
            script[k].op = "recv" =>
                /\ progs[1].results[k].exc = ""
                /\ progs[2].results[k].exc = ""
                /\ IsBatch(progs[1].results[k].val)
                /\ IsBatch(progs[2].results[k].val)
                /\ observations(progs[1].results[k].val) =
                   observations(progs[2].results[k].val)

---------------------------------------------------------------------------
(* Further claims about the orchestrator, checked under Spec *)

\* The seed the seeding rule gives (worker, environment) sl, both counted
\* from 0, for a base seed s.
RuleSeed(s, sl) == s + (sl[1] - 1) * envs_per_worker * max_agents + (sl[2] - 1)

\* C11: after async_reset(seed) with a non-null seed, the environment e of
\* worker w was reset with seed + w * envs_per_worker * max_agents + e, and
\* no two distinct (worker, environment) pairs were reset with the same
\* seed; after async_reset(None) every environment was reset with None.
C11_SeedFanOut ==
    (call.op = "async_reset" /\ exc = "") =>
        /\ \A sl \in Slots : Env(sl).kind = "reset"
        /\ IF call.arg = None
           THEN \A sl \in Slots : Env(sl).seed = None
           ELSE /\ \A sl \in Slots : Env(sl).seed = Some(RuleSeed(call.arg[1], sl))
                /\ \A sl, tl \in Slots : Env(sl).seed = Env(tl).seed => sl = tl

C11_Witness ==
    /\ call.op = "async_reset"
    /\ exc = ""
    /\ call.arg # None
    /\ num_workers > 1
    /\ envs_per_worker > 1
    /\ \A sl \in Slots : Env(sl).seed # None

---------------------------------------------------------------------------
(* Construction, lines 83-96.  SpecNew starts before VecEnv(...) is called *)
(* and goes on as Spec does once the orchestrator is constructed.  An      *)
(* envs_per_worker argument is [type, val]: the name of its Python type    *)
(* and, for a number, its value.                                           *)

\* The state variable before there is an orchestrator.
Unconstructed == RESET - 1

EnvsPerWorkerArgs ==
    {[type |-> "int", val |-> n] : n \in (0 - 1)..MaxEnvsPerWorker}
    \cup {[type |-> "bool", val |-> b] : b \in 0..1}
    \cup {[type |-> "float", val |-> f] : f \in {0, MaxEnvsPerWorker}}
    \cup {[type |-> t, val |-> 0] : t \in {"str", "NoneType"}}

\* The constructor calls of the model: an invalid envs_per_worker with any
\* num_workers, a valid one with the pairs of Configs.
NewArgs ==
    {a \in [num_workers : 1..MaxWorkers, envs_per_worker : EnvsPerWorkerArgs] :
        (a.envs_per_worker.type = "int" /\ a.envs_per_worker.val > 0) =>
            <<a.num_workers, a.envs_per_worker.val>> \in Configs}

\* An envs_per_worker > 0 that lets zero pass.
positive_check_mut(a) ==
    IF a.type \in {"str", "NoneType"} THEN "TypeError"
    ELSE IF a.val >= 0 THEN "" ELSE "AssertionError"

\* assert envs_per_worker > 0, line 84: the exception it ends in, "" if it
\* passes.  The comparison itself raises for a str or None.
positive_check(a) ==
    IF a.type \in {"str", "NoneType"} THEN "TypeError"
    ELSE IF a.val > 0 THEN "" ELSE "AssertionError"

\* assert type(envs_per_worker) == int, line 85.
type_check(a) == IF a.type = "int" THEN "" ELSE "AssertionError"

\* The exception the constructor raises before line 87, "" if none.
VecEnv_init_exc(a) ==
    IF positive_check(a) # "" THEN positive_check(a) ELSE type_check(a)

InitNew ==
    /\ \E a \in NewArgs : call = [op |-> "new", arg |-> a]
    /\ num_workers = 0
    /\ envs_per_worker = 0
    /\ state = Unconstructed
    /\ agent_keys = <<>>
    /\ backends = <<>>
    /\ exc = ""
    /\ ret = NoBatch
    /\ rows = <<>>
    /\ reset_called = FALSE
    /\ last_fsm_op = "none"
    /\ script = <<>>
    /\ progs = <<>>
    /\ inflight = NoRecv

\* VecEnv(binding, Serial, num_workers, envs_per_worker).
Do_new ==
    /\ call.op = "new"
    /\ \E e \in {VecEnv_init_exc(call.arg.envs_per_worker)} :
          IF e # ""
          THEN /\ call' = [op |-> "new_failed", arg |-> call.arg]
               /\ exc' = e
               /\ UNCHANGED <<num_workers, envs_per_worker, state, backends>>
          ELSE /\ call' = [op |-> "init", arg |-> None]
               /\ exc' = ""
               /\ num_workers' = call.arg.num_workers
               /\ envs_per_worker' = call.arg.envs_per_worker.val
               /\ state' = RESET
               /\ \E pops \in [1..call.arg.num_workers ->
                                 [1..call.arg.envs_per_worker.val -> AgentCounts]] :
                     backends' = [w \in 1..call.arg.num_workers |->
                                     NewSerial(w, call.arg.envs_per_worker.val, pops)]
    /\ UNCHANGED <<agent_keys, ret, rows, reset_called, last_fsm_op, proc_vars>>

NextNew ==
    \/ Do_new
    \/ call.op \notin {"new", "new_failed"} /\ Next

SpecNew == InitNew /\ [][NextNew]_vars

\* C12: a constructor call whose envs_per_worker is not a positive integer
\* raises with no backend constructed; one whose envs_per_worker is a
\* positive integer returns with exactly num_workers backends, each of
\* envs_per_worker environments, and the FSM in RESET.
C12_Construction ==
    [][call.op = "new" =>
        IF call.arg.envs_per_worker.type = "int" /\ call.arg.envs_per_worker.val > 0
        THEN /\ exc' = ""
             /\ Len(backends') = call.arg.num_workers
             /\ \A w \in 1..Len(backends') :
                    Len(backends'[w].envs) = call.arg.envs_per_worker.val
             /\ state' = RESET
        ELSE /\ exc' # ""
             /\ backends' = <<>>
             /\ state' = Unconstructed]_vars

C12_Witness ==
    /\ call.op = "new_failed"
    /\ call.arg.envs_per_worker.type = "int"
    /\ exc = "AssertionError"
    /\ backends = <<>>

---------------------------------------------------------------------------
(* A Serial backend on its own.  SpecSerial has a caller that calls        *)
(* async_reset_all, send and recv on one backend in any order and catches  *)
(* what they raise; the backend is backends[1], and ret is what recv       *)
(* returned.                                                               *)

\* Action maps for the environments of backend b: every agent key of
\* environment e is given the action e.
SerialActions(b) ==
    [e \in 1..Len(b.envs) |->
        dict_zip(KeyList(b.envs[e].agents),
                 [i \in 1..b.envs[e].agents |-> e])]

InitSerial ==
    /\ \E E \in 1..MaxEnvsPerWorker :
        /\ envs_per_worker = E
        /\ \E pops \in [1..1 -> [1..E -> AgentCounts]] :
              backends = <<NewSerial(1, E, pops)>>
    /\ num_workers = 1
    /\ state = RESET
    /\ agent_keys = <<>>
    /\ call = [op |-> "init", arg |-> None]
    /\ exc = ""
    /\ ret = <<>>
    /\ rows = <<>>
    /\ reset_called = FALSE
    /\ last_fsm_op = "none"
    /\ script = <<>>
    /\ progs = <<>>
    /\ inflight = NoRecv

SerialFrame ==
    UNCHANGED <<num_workers, envs_per_worker, state, agent_keys, rows,
                reset_called, last_fsm_op, proc_vars>>

S_async_reset_all ==
    /\ \E seed \in Seeds :
        \E r \in {Serial_async_reset_all(backends[1], seed)} :
            /\ backends' = <<r.b>>
            /\ call' = [op |-> "async_reset_all", arg |-> seed]
            /\ exc' = r.exc
            /\ ret' = <<>>
    /\ SerialFrame

S_send ==
    /\ \E d \in [1..envs_per_worker -> BOOLEAN] :
        \E r \in {Serial_send(backends[1], SerialActions(backends[1]), d)} :
            /\ backends' = <<r.b>>
            /\ call' = [op |-> "send", arg |-> None]
            /\ exc' = r.exc
            /\ ret' = <<>>
    /\ SerialFrame

S_recv ==
    /\ \E r \in {Serial_recv(backends[1])} :
          /\ backends' = <<r.b>>
          /\ call' = [op |-> "recv", arg |-> None]
          /\ exc' = r.exc
          /\ ret' = r.ret
    /\ SerialFrame

NextSerial ==
    \/ S_async_reset_all
    \/ S_send
    \/ S_recv

SpecSerial == InitSerial /\ [][NextSerial]_vars

SlotFilled(b) == b.async_handles # None

\* C13: a schedule (async_reset_all or send) on a filled slot raises an
\* assertion and leaves the backend, its buffered result included, as it
\* was; a recv on an empty slot raises an assertion; a recv on a filled
\* slot returns the buffered result and leaves the slot empty; a schedule
\* that returns leaves the slot filled.
C13_SingleSlot ==
    [][/\ (call'.op \in {"async_reset_all", "send"} /\ SlotFilled(backends[1])) =>
            (exc' = "AssertionError" /\ backends'[1] = backends[1])
       /\ (call'.op \in {"async_reset_all", "send"} /\ ~SlotFilled(backends[1])
              /\ exc' = "") =>
            SlotFilled(backends'[1])
       /\ (call'.op = "recv" /\ ~SlotFilled(backends[1])) =>
            (exc' = "AssertionError" /\ backends'[1] = backends[1])
       /\ (call'.op = "recv" /\ SlotFilled(backends[1])) =>
            /\ exc' = ""
            /\ ret' = backends[1].async_handles[1]
            /\ ~SlotFilled(backends'[1])
            /\ backends'[1].envs = backends[1].envs]_vars

\* A send was refused on a slot that a reset had filled.
C13_Witness ==
    /\ call.op = "send"
    /\ exc = "AssertionError"
    /\ SlotFilled(backends[1])
    /\ \A e \in 1..Len(backends[1].envs) : backends[1].envs[e].kind = "reset"

---------------------------------------------------------------------------
(* Further claims about the process backends, checked under SpecMP *)

\* The id of the request the k-th call of the script puts: every call but
\* recv puts exactly one request.
ReqId(k) == Cardinality({j \in 1..k : script[j].op # "recv"})

\* The worker of program p has taken the request id from its queue.
Taken(p, id) ==
    /\ id <= p.sent
    /\ \A j \in 1..Len(p.request_queue) : p.request_queue[j].id # id

\* A header answering request id is, or has been, on the egress channel of
\* program p: it waits there, or a call of the caller took it.
HeaderPublished(p, id) ==
    \/ \E j \in 1..Len(p.response_queue) :
          p.response_queue[j].id = id /\ p.response_queue[j].val.kind = "header"
    \/ \E j \in 1..Len(p.results) : p.results[j].id = id

\* C14: on the Process+SharedMemory backend, for every step request the
\* worker has taken it has published a header; a header that waits on the
\* egress channel claims no more rows than the buffer has, and the rows it
\* claims are in the buffer; and a recv that read the buffer took the
\* header of a step request.
C14_RowsBeforeHeader ==
    LET p == progs[2]
    IN  /\ \A k \in 1..Len(p.results) :
              (script[k].op = "send" /\ Taken(p, ReqId(k))) =>
                  HeaderPublished(p, ReqId(k))
        /\ \A j \in 1..Len(p.response_queue) :
              p.response_queue[j].val.kind = "header" =>
                  /\ p.response_queue[j].val.data[1].n <= Len(p.obs_np)
                  /\ \A e \in 1..p.response_queue[j].val.data[1].n :
                        p.obs_np[e] = env_obs(p.worker.envs[e])
        /\ \A k \in 1..Len(p.results) :
              (p.results[k].op = "recv" /\ p.results[k].val.kind = "batch") =>
                  \E j \in 1..k : script[j].op = "send" /\ ReqId(j) = p.results[k].id

---------------------------------------------------------------------------
(* VecEnv over Multiprocessing backends.  In SpecVecMP progs[w] is the     *)
(* backend of worker w with its worker process.  async_reset and send put  *)
(* their requests without waiting; recv waits on one backend after the     *)
(* other, so it is modelled in steps: V_recv_begin is the call up to the   *)
(* loop, V_recv_take one turn of the loop, enabled when the backend it     *)
(* waits on has a response.  The workers run when they have a request.     *)

NewWorkerProgram(w, E) ==
    [NewProgram(MP, E) EXCEPT !.worker.envs = [e \in 1..E |-> NewEnv(w, e, 1)]]

\* A recv loop that goes through the backends from the last to the first.
recv_order_mut(W) == [i \in 1..W |-> W + 1 - i]

\* The backends in the order the loop of recv goes through them, line 128.
recv_order(W) == [i \in 1..W |-> i]

\* What the worker of program p yields for the request (name, args).
unit_result(p, name, args) == MultiEnv_call(p.worker.envs, name, args).val.data

Idle == exc = "" /\ inflight.at = 0
MaySchedule == \A w \in 1..num_workers : progs[w].sent < MaxRequests

InitVecMP ==
    /\ \E c \in Configs :
        /\ num_workers = c[1]
        /\ envs_per_worker = c[2]
        /\ progs = [w \in 1..c[1] |-> NewWorkerProgram(w, c[2])]
    /\ state = RESET
    /\ agent_keys = <<>>
    /\ backends = <<>>
    /\ call = [op |-> "init", arg |-> None]
    /\ exc = ""
    /\ ret = NoBatch
    /\ rows = <<>>
    /\ reset_called = FALSE
    /\ last_fsm_op = "none"
    /\ script = <<>>
    /\ inflight = NoRecv

VecFrame == UNCHANGED <<num_workers, envs_per_worker, backends, script>>

\* VecEnv.async_reset, lines 113-120.
V_async_reset ==
    /\ Idle
    /\ MaySchedule
    /\ \E seed \in Seeds :
        /\ call' = [op |-> "async_reset", arg |-> seed]
        /\ IF ~async_reset_admits(state)
           THEN /\ exc' = "AssertionError"
                /\ UNCHANGED <<state, progs, inflight>>
           ELSE /\ exc' = ""
                /\ state' = async_reset_state
                /\ progs' = [w \in 1..num_workers |->
                                Multiprocessing_async_reset_all(
                                    progs[w], worker_seed(seed, w, envs_per_worker))]
                /\ inflight' =
                      [NoRecv EXCEPT !.expected =
                          [w \in 1..num_workers |->
                              unit_result(progs[w], "reset_all",
                                          <<worker_seed(seed, w, envs_per_worker)>>)]]
    /\ ret' = NoBatch
    /\ reset_called' = TRUE
    /\ last_fsm_op' = "async_reset"
    /\ UNCHANGED <<agent_keys, rows>>
    /\ VecFrame

\* The loop of send over process backends, lines 153-156.
send_loop_mp(bs, keys, chunks, E) ==
    CHOOSE y \in
        {loop_outcome(bs, rs) :
         rs \in {[i \in 1..Min(Len(bs), Min(Len(keys), Len(chunks))) |->
                    IF ~np_split_ok(chunks[i], E)
                    THEN [b |-> bs[i], exc |-> "ValueError"]
                    ELSE [b |-> Multiprocessing_send(
                                    bs[i], worker_actions(keys[i], chunks[i], E)),
                          exc |-> ""]]}} : TRUE

\* VecEnv.send, lines 144-156.
V_send ==
    /\ Idle
    /\ MaySchedule
    /\ call' = [op |-> "send", arg |-> None]
    /\ IF ~send_admits(state)
       THEN /\ exc' = "AssertionError"
            /\ UNCHANGED <<state, progs, inflight>>
       ELSE IF ~np_split_ok(Actions, num_workers)
       THEN /\ exc' = "ValueError"
            /\ state' = send_state
            /\ UNCHANGED <<progs, inflight>>
       ELSE \E r \in {send_loop_mp(progs, agent_keys,
                                   np_split(Actions, num_workers), envs_per_worker)} :
               /\ exc' = r.exc
               /\ state' = send_state
               /\ progs' = r.backends
               /\ inflight' =
                     [NoRecv EXCEPT !.expected =
                         [w \in 1..num_workers |->
                             IF r.backends[w].request_queue = <<>> THEN <<>>
                             ELSE unit_result(progs[w], "step",
                                              Head(r.backends[w].request_queue).args)]]
    /\ ret' = NoBatch
    /\ last_fsm_op' = "send"
    /\ UNCHANGED <<agent_keys, rows, reset_called>>
    /\ VecFrame

\* VecEnv.recv up to its loop, lines 122-127.
V_recv_begin ==
    /\ Idle
    /\ call' = [op |-> "recv", arg |-> None]
    /\ IF ~recv_admits(state)
       THEN /\ exc' = "AssertionError"
            /\ UNCHANGED <<state, agent_keys, inflight>>
       ELSE /\ exc' = ""
            /\ state' = recv_state
            /\ agent_keys' = <<>>
            /\ inflight' = [inflight EXCEPT !.at = 1, !.rs = <<>>]
    /\ ret' = NoBatch
    /\ last_fsm_op' = "recv"
    /\ UNCHANGED <<progs, rows, reset_called>>
    /\ VecFrame

\* One turn of the loop of recv, lines 128-138, and after the last turn
\* the rest of recv, lines 140-142.
V_recv_take ==
    /\ inflight.at > 0
    /\ \E w \in {recv_order(num_workers)[inflight.at]} :
        /\ progs[w].response_queue # <<>>
        /\ progs' = [progs EXCEPT ![w] = Multiprocessing_recv(@)]
        /\ \E rs \in {Append(inflight.rs,
                             [b |-> progs[w], exc |-> "",
                              ret |-> Head(progs[w].response_queue).val.data])} :
              IF inflight.at < num_workers
              THEN /\ agent_keys' = recv_gathered(rs, Len(rs) + 1).agent_keys
                   /\ inflight' = [inflight EXCEPT !.at = @ + 1, !.rs = rs]
                   /\ UNCHANGED <<exc, ret, rows>>
              ELSE \E r \in {recv_body(V, rs)} :
                      /\ agent_keys' = r.v.agent_keys
                      /\ exc' = r.exc
                      /\ ret' = r.ret
                      /\ rows' = IF r.exc = "" THEN RowsOf(r.ret) ELSE rows
                      /\ inflight' = [inflight EXCEPT !.at = 0, !.rs = <<>>]
    /\ UNCHANGED <<state, call, reset_called, last_fsm_op>>
    /\ VecFrame

\* The worker of backend w takes its next request.
V_worker(w) ==
    /\ progs[w].worker.pc = "running"
    /\ progs[w].request_queue # <<>>
    /\ progs' = [progs EXCEPT ![w] = Multiprocessing_worker_process(@)]
    /\ inflight' = [inflight EXCEPT !.order = Append(@, w)]
    /\ UNCHANGED <<state, agent_keys, call, exc, ret, rows, reset_called, last_fsm_op>>
    /\ VecFrame

NextVecMP ==
    \/ V_async_reset
    \/ V_send
    \/ V_recv_begin
    \/ V_recv_take
    \/ \E w \in 1..num_workers : V_worker(w)

SpecVecMP == InitVecMP /\ [][NextVecMP]_vars

\* The caller waiting in a queue's get goes on once the queue has an item,
\* and a worker process with a request goes on to handle it.
FairSpecVecMP ==
    /\ SpecVecMP
    /\ WF_vars(V_recv_take)
    /\ \A w \in 1..MaxWorkers : WF_vars(w <= num_workers /\ V_worker(w))

RecvReturned == call.op = "recv" /\ exc = "" /\ inflight.at = 0

\* The batch made of the workers' results taken in ascending worker order.
InOrderBatch(res) ==
    [obs |-> Concat([w \in 1..Len(res) |-> backend_rows(res[w], "obs")], Len(res)),
     rewards |-> Concat([w \in 1..Len(res) |-> backend_rows(res[w], "rewards")], Len(res)),
     dones |-> Concat([w \in 1..Len(res) |-> backend_rows(res[w], "dones")], Len(res)),
     infos |-> Concat([w \in 1..Len(res) |->
                         [j \in 1..Len(res[w]) |-> res[w][j].infos]], Len(res))]

\* C15: over process-based workers, whatever the order in which the
\* workers published, a recv() that has returned returned the workers'
\* results in ascending worker order, row i being about worker i div E and
\* environment i mod E; and a recv() that waits in its loop returns, the
\* workers publishing their responses.
C15_RecvInOrder ==
    /\ [](RecvReturned =>
            /\ ret = InOrderBatch(inflight.expected)
            /\ \A j \in 1..Len(ret.obs) : ret.obs[j].id = RowSlot(j))
    /\ (inflight.at > 0) ~> RecvReturned

\* recv has returned, and the last worker published before the first.
C15_Witness ==
    /\ RecvReturned
    /\ num_workers > 1
    /\ Len(inflight.order) = num_workers
    /\ inflight.order[1] = num_workers
    /\ Len(ret.obs) = num_workers * envs_per_worker

\* C16: on the Process+Queues backend, when a put_all, get_all or
\* profile_all call has returned, the worker has handled the request of
\* that call, a get_all or profile_all returned the response to that very
\* request, and no response to that request is left on the egress channel.
C16_OutOfBand ==
    \A k \in 1..Len(progs[1].results) :
        script[k].op \in {"put_all", "get_all", "profile_all"} =>
            /\ Taken(progs[1], ReqId(k))
            /\ script[k].op \in {"get_all", "profile_all"} =>
                   progs[1].results[k].id = ReqId(k)
            /\ \A j \in 1..Len(progs[1].response_queue) :
                   progs[1].response_queue[j].id # ReqId(k)

---------------------------------------------------------------------------
(* Further claims about the orchestrator over Serial backends, checked     *)
(* under Spec *)

\* The call just made was one the FSM does not admit in the state it was
\* made in.
Rejected ==
    \/ call'.op = "async_reset" /\ ~async_reset_admits(state)
    \/ call'.op = "recv" /\ ~recv_admits(state)
    \/ call'.op = "send" /\ ~send_admits(state)

\* C17: an async_reset, recv or send made in a state the FSM does not admit
\* it in raises an assertion and leaves the FSM state, the agent-key ledger
\* and every backend (its environments, its result slot, what it was last
\* sent) as they were.
C17_RejectedChangesNothing ==
    [][Rejected =>
        /\ exc' = "AssertionError"
        /\ state' = state
        /\ agent_keys' = agent_keys
        /\ backends' = backends]_vars

\* A recv was rejected after a reset and a recv had filled the ledger.
C17_Witness ==
    /\ call.op = "recv"
    /\ exc = "AssertionError"
    /\ state = SEND
    /\ agent_keys # <<>>
    /\ last_fsm_op = "recv"

\* Backend w was scheduled a step by the call just made: its slot went
\* from empty to filled.
Scheduled(w) == ~SlotFilled(backends[w]) /\ SlotFilled(backends'[w])

\* C18: a send the FSM admits either returns with every backend scheduled
\* a step and the state RECV, or raises with no backend changed and the
\* state still SEND.
C18_SendAllOrNothing ==
    [][(call'.op = "send" /\ send_admits(state)) =>
        \/ /\ exc' = ""
           /\ state' = RECV
           /\ \A w \in 1..num_workers : Scheduled(w)
        \/ /\ exc' # ""
           /\ state' = SEND
           /\ backends' = backends]_vars

\* C19: over Serial backends the FSM state is RECV exactly when the result
\* slot of every backend is filled, and RESET or SEND exactly when the
\* slot of every backend is empty.
C19_FsmMatchesSlots ==
    /\ state = RECV <=> \A w \in 1..num_workers : SlotFilled(backends[w])
    /\ state \in {RESET, SEND} <=> \A w \in 1..num_workers : ~SlotFilled(backends[w])

\* The position of statement s in the constructor of class cls.
InitPos(cls, s) == CHOOSE i \in 1..Len(InitOrder(cls)) : InitOrder(cls)[i] = s

\* C20: on the Process+SharedMemory backend, once the worker has taken a
\* step request or the teardown message, the constructor created the
\* buffer before it started the worker and the worker's copy of the
\* backend holds the buffer and the array over it.
C20_BufferBeforeStart ==
    \A i \in ProgIds :
        (/\ progs[i].cls = SHM
         /\ \E k \in 1..Len(progs[i].results) :
                /\ script[k].op \in {"send", "close"}
                /\ Taken(progs[i], ReqId(k))) =>
            /\ InitPos(SHM, "obs_shm") < InitPos(SHM, "start")
            /\ InitPos(SHM, "obs_np") < InitPos(SHM, "start")
            /\ {"obs_shm", "obs_np"} \subseteq progs[i].worker.attrs

====
